---- MODULE Spec2Model ----
(***************************************************************************)
(* Model of the NoCopy derive macro (nocopy_macro/src/lib.rs) and of the   *)
(* union type it generates.                                                *)
(*                                                                         *)
(* The first half is the macro expansion: no_copy checks the repr(C)       *)
(* marker, extract_meta folds the nocopy_macro attributes into a name and  *)
(* an endian mode, the data shape is checked, match_endian picks one       *)
(* accessor pair per field, and the quote! block emits the union.          *)
(* The second half is the generated code at run time: the union's storage  *)
(* (mem), new_buffer, as_buffer and the generated getters and setters,     *)
(* compiled for a little- or big-endian target.                            *)
(*                                                                         *)
(* A value of a field type is its sequence of bytes, most significant      *)
(* first (a base-256 numeral): u64 values do not fit TLC's 32-bit          *)
(* integers.                                                               *)
(***************************************************************************)
EXTENDS Naturals, Sequences, FiniteSets, TLC

VARIABLES
    ast,        \* the parsed DeriveInput handed to no_copy
    pc,         \* position in no_copy, then "run" once the output is compiled
    panic,      \* the panic message, "" when none was raised
    config,     \* extract_meta's result: [ident, endian]
    funcs_vec,  \* no_copy's funcs_vec: the accessor pairs built so far
    output,     \* the TokenStream no_copy returned, NoOutput before that
    target,     \* the compilation target of the emitted code
    mem,        \* the union's storage (structure and buffer overlaid)
    call        \* the last call made on the instance, with its argument/result

vars == <<ast, pc, panic, config, funcs_vec, output, target, mem, call>>

-----------------------------------------------------------------------------
(* Bounds of the model *)

MaxAttrs == 3
MaxFields == 2

-----------------------------------------------------------------------------
(* Generic helpers *)

SeqsUpTo(S, n) == UNION {[1..k -> S] : k \in 0..n}

Reverse(s) == [i \in 1..Len(s) |-> s[Len(s) + 1 - i]]

Max(a, b) == IF a >= b THEN a ELSE b

-----------------------------------------------------------------------------
(* The input: attributes (syn::Attribute) and the data shape *)

None == "None"

NestedNV(k, v) == [kind |-> "NameValueStr", path |-> k, value |-> v]
NestedPath(p) == [kind |-> "Path", path |-> p, value |-> ""]

MetaList(nested) == [kind |-> "List", nested |-> nested]
MetaPath == [kind |-> "Path", nested |-> <<>>]
MetaErr == [kind |-> "Err", nested |-> <<>>]

Attr(path, meta) == [style |-> "Outer", path |-> path, meta |-> meta]

ReprC == Attr("repr", MetaList(<<NestedPath("C")>>))
NameFoo == Attr("nocopy_macro", MetaList(<<NestedNV("name", "Foo")>>))
NameBar == Attr("nocopy_macro", MetaList(<<NestedNV("name", "Bar")>>))
EndianBig == Attr("nocopy_macro", MetaList(<<NestedNV("endian", "big")>>))
EndianLittle == Attr("nocopy_macro", MetaList(<<NestedNV("endian", "little")>>))
EndianMiddle == Attr("nocopy_macro", MetaList(<<NestedNV("endian", "middle")>>))
FooBar == Attr("nocopy_macro", MetaList(<<NestedNV("foo", "bar")>>))
\* #[nocopy_macro(name = "Foo", endian = "big")]
NameFooEndianBig ==
    Attr("nocopy_macro", MetaList(<<NestedNV("name", "Foo"), NestedNV("endian", "big")>>))
\* #[nocopy_macro(name)]: a nested item that is no key = "string"
NestedNotNameValue == Attr("nocopy_macro", MetaList(<<NestedPath("name")>>))
\* #[nocopy_macro]: a bare path, no parenthesized list
BarePath == Attr("nocopy_macro", MetaPath)
\* an attribute parse_meta rejects, e.g. #[nocopy_macro(endian "big")]
Unparsable == Attr("nocopy_macro", MetaErr)

AttrUniverse ==
    {ReprC, NameFoo, NameBar, EndianBig, EndianLittle, EndianMiddle, FooBar,
     NameFooEndianBig, NestedNotNameValue, BarePath, Unparsable}

Types == {"u8", "u16", "u32", "u64", "i32"}

FieldNames == <<"a", "b", "c", "d">>

NamedField(i, ty) == [ident |-> FieldNames[i], ty |-> ty]
UnnamedField(ty) == [ident |-> None, ty |-> ty]

NamedFields(tys) == [i \in 1..Len(tys) |-> NamedField(i, tys[i])]

Shape(data, named, fields) == [data |-> data, named |-> named, fields |-> fields]

\* struct S { a: T1, b: T2, .. }
NamedStructs == {Shape("Struct", "Named", NamedFields(tys)) : tys \in SeqsUpTo(Types, MaxFields)}

\* struct S(u16, u8);  struct S;  enum S { .. }  union S { .. }
OtherShapes ==
    {Shape("Struct", "Unnamed", <<UnnamedField("u16"), UnnamedField("u8")>>),
     Shape("Struct", "Unit", <<>>),
     Shape("Enum", "None", <<>>),
     Shape("Union", "None", <<>>)}

Shapes == NamedStructs \cup OtherShapes

\* struct Example(u16, u8), enum Example { .. }, struct Example { a: u16, b: u8 }
\* and struct Example { a: i32, b: u32 }
SampleShapes ==
    {Shape("Struct", "Unnamed", <<UnnamedField("u16"), UnnamedField("u8")>>),
     Shape("Enum", "None", <<>>),
     Shape("Struct", "Named", NamedFields(<<"u16", "u8">>)),
     Shape("Struct", "Named", NamedFields(<<"i32", "u32">>))}

AttrLists == SeqsUpTo(AttrUniverse, MaxAttrs)

SampleAttrLists == {<<ReprC>>, <<ReprC, EndianBig>>, <<EndianLittle, ReprC>>}

Input(attrs, s) ==
    [attrs |-> attrs, ident |-> "Example", data |-> s.data, named |-> s.named,
     fields |-> s.fields]

\* every attribute list on the sample shapes, and every shape under the sample
\* attribute lists
Inputs ==
    {Input(attrs, s) : attrs \in AttrLists, s \in SampleShapes}
        \cup {Input(attrs, s) : attrs \in SampleAttrLists, s \in Shapes}

\* the DeriveInput once no_copy has returned and its value is dropped
Consumed == [attrs |-> <<>>, ident |-> "", data |-> "None", fields |-> <<>>, named |-> "None"]

NoConfig == [ident |-> None, endian |-> "Default"]
NoOutput == [attrname |-> "", name |-> "", structure |-> <<>>, methods |-> <<>>, funcs |-> <<>>]
NoTarget == [little |-> FALSE, size |-> 0, offset |-> <<>>, width |-> <<>>]
NoCall == [op |-> "none", field |-> 0, v |-> <<>>]

-----------------------------------------------------------------------------
(* extract_meta *)

EndianOf(s) ==
    IF s = "big" THEN "Big" ELSE IF s = "little" THEN "Little" ELSE "Panic"

\* mutant: the first occurrence of a key wins
extract_nested_first_wins(st, nest) ==
    IF st.panic # "" THEN st
    ELSE IF nest.kind # "NameValueStr"
    THEN [st EXCEPT !.panic = "Malformed macro attribute"]
    ELSE LET named == IF nest.path = "name" /\ st.ident = None
                      THEN [st EXCEPT !.ident = nest.value] ELSE st
         IN  IF nest.path = "endian"
             THEN IF EndianOf(nest.value) = "Panic"
                  THEN [named EXCEPT !.panic = "Unrecognized endian option"]
                  ELSE IF st.endian = "Default"
                       THEN [named EXCEPT !.endian = EndianOf(nest.value)]
                       ELSE named
             ELSE named

\* one iteration of the loop over the nested items of an attribute
extract_nested(st, nest) ==
    IF st.panic # "" THEN st
    ELSE IF nest.kind # "NameValueStr"
    THEN [st EXCEPT !.panic = "Malformed macro attribute"]
    ELSE LET named == IF nest.path = "name" THEN [st EXCEPT !.ident = nest.value] ELSE st
         IN  IF nest.path = "endian"
             THEN IF EndianOf(nest.value) = "Panic"
                  THEN [named EXCEPT !.panic = "Unrecognized endian option"]
                  ELSE [named EXCEPT !.endian = EndianOf(nest.value)]
             ELSE named

RECURSIVE extract_nested_all(_, _)
extract_nested_all(st, nested) ==
    IF nested = <<>> THEN st
    ELSE extract_nested_all(extract_nested(st, Head(nested)), Tail(nested))

\* one iteration of the loop over ast.attrs
extract_attr(st, attr) ==
    IF st.panic # "" THEN st
    ELSE IF attr.style # "Outer"
    THEN [st EXCEPT !.panic = "Only outer attributes allowed here"]
    ELSE IF attr.path # "nocopy_macro" THEN st
    ELSE IF attr.meta.kind = "List" THEN extract_nested_all(st, attr.meta.nested)
    ELSE [st EXCEPT !.panic = "Outer attribute must be in the form key = value"]

RECURSIVE extract_attrs(_, _)
extract_attrs(st, attrs) ==
    IF attrs = <<>> THEN st
    ELSE extract_attrs(extract_attr(st, Head(attrs)), Tail(attrs))

\* (Ident, Endian), or the panic raised on the way
extract_meta(a) ==
    LET st == extract_attrs([panic |-> "", ident |-> None, endian |-> "Default"], a.attrs)
    IN  [panic |-> st.panic,
         ident |-> IF st.ident # None THEN st.ident ELSE a.ident \o "Buffer",
         endian |-> st.endian]

-----------------------------------------------------------------------------
(* match_endian and the three accessor templates *)

big_endian(ident, get_ident, set_ident, ty) ==
    [ident |-> ident, get |-> get_ident, set |-> set_ident, ty |-> ty, conv |-> "be"]

little_endian(ident, get_ident, set_ident, ty) ==
    [ident |-> ident, get |-> get_ident, set |-> set_ident, ty |-> ty, conv |-> "le"]

native_endian(ident, get_ident, set_ident, ty) ==
    [ident |-> ident, get |-> get_ident, set |-> set_ident, ty |-> ty, conv |-> "native"]

\* mutant: the field's type is not looked at
match_endian_any_type(named_field, endian) ==
    LET ident == named_field.ident
        get_ident == "get_" \o ident
        set_ident == "set_" \o ident
        ty == named_field.ty
    IN  CASE endian = "Big" -> big_endian(ident, get_ident, set_ident, ty)
          [] endian = "Little" -> little_endian(ident, get_ident, set_ident, ty)
          [] endian = "Default" -> native_endian(ident, get_ident, set_ident, ty)

match_endian(named_field, endian) ==
    LET ident == named_field.ident
        get_ident == "get_" \o ident
        set_ident == "set_" \o ident
        ty == named_field.ty
    IN  IF ty = "u8" \/ ty = "u16" \/ ty = "u32" \/ ty = "u64"
        THEN CASE endian = "Big" -> big_endian(ident, get_ident, set_ident, ty)
               [] endian = "Little" -> little_endian(ident, get_ident, set_ident, ty)
               [] endian = "Default" -> native_endian(ident, get_ident, set_ident, ty)
        ELSE native_endian(ident, get_ident, set_ident, ty)

-----------------------------------------------------------------------------
(* no_copy, one action per stage *)

IsReprC(attr) == attr.path = "repr" /\ attr.meta = MetaList(<<NestedPath("C")>>)

\* mutant: the accessors built so far are returned along with the error
AbortWithPartialOutput(msg) ==
    /\ pc' = "aborted"
    /\ panic' = msg
    /\ output' = [attrname |-> config.ident, name |-> ast.ident, structure |-> <<>>,
                  methods |-> <<>>, funcs |-> funcs_vec]
    /\ UNCHANGED <<ast, config, funcs_vec, target, mem, call>>

\* panic!: the expansion stops and returns nothing
Abort(msg) ==
    /\ pc' = "aborted"
    /\ panic' = msg
    /\ UNCHANGED <<ast, config, funcs_vec, output, target, mem, call>>

\* mutant: the attributes are resolved before the repr(C) marker is looked for
ReprCheckAfterMeta ==
    /\ pc = "repr"
    /\ IF \E i \in 1..Len(ast.attrs) : ast.attrs[i].meta.kind = "Err"
       THEN Abort("Provided attribute not valid")
       ELSE IF extract_meta(ast).panic # ""
       THEN Abort(extract_meta(ast).panic)
       ELSE IF Cardinality({i \in 1..Len(ast.attrs) : IsReprC(ast.attrs[i])}) < 1
       THEN Abort("Struct must be marked as #[repr(C)]")
       ELSE /\ pc' = "meta"
            /\ UNCHANGED <<ast, panic, config, funcs_vec, output, target, mem, call>>

\* lines 223-238: every attribute is parsed, those equal to repr(C) are counted
ReprCheck ==
    /\ pc = "repr"
    /\ IF \E i \in 1..Len(ast.attrs) : ast.attrs[i].meta.kind = "Err"
       THEN Abort("Provided attribute not valid")
       ELSE IF Cardinality({i \in 1..Len(ast.attrs) : IsReprC(ast.attrs[i])}) < 1
       THEN Abort("Struct must be marked as #[repr(C)]")
       ELSE /\ pc' = "meta"
            /\ UNCHANGED <<ast, panic, config, funcs_vec, output, target, mem, call>>

\* line 241
ExtractMeta ==
    /\ pc = "meta"
    /\ LET r == extract_meta(ast)
       IN  IF r.panic # ""
           THEN Abort(r.panic)
           ELSE /\ config' = [ident |-> r.ident, endian |-> r.endian]
                /\ pc' = "data"
                /\ UNCHANGED <<ast, panic, funcs_vec, output, target, mem, call>>

\* lines 243-250
DataCheck ==
    /\ pc = "data"
    /\ IF ast.data # "Struct"
       THEN Abort("This macro only supports structs")
       ELSE IF ast.named # "Named"
       THEN Abort("This macro only supports structs with named fields")
       ELSE /\ pc' = "fields"
            /\ UNCHANGED <<ast, panic, config, funcs_vec, output, target, mem, call>>

\* lines 253-255: one iteration of the loop over field_pairs
MatchEndian ==
    /\ pc = "fields"
    /\ Len(funcs_vec) < Len(ast.fields)
    /\ LET named_field == ast.fields[Len(funcs_vec) + 1]
       IN  IF named_field.ident = None
           THEN Abort("All struct fields must be named")
           ELSE /\ funcs_vec' = Append(funcs_vec, match_endian(named_field, config.endian))
                /\ UNCHANGED <<ast, pc, panic, config, output, target, mem, call>>

\* lines 257-278: the quote! block, returned as the macro's output
Quote ==
    /\ pc = "fields"
    /\ Len(funcs_vec) = Len(ast.fields)
    /\ output' = [attrname |-> config.ident,
                  name |-> ast.ident,
                  structure |-> [i \in 1..Len(ast.fields) |-> ast.fields[i].ty],
                  methods |-> <<"new_buffer", "as_buffer">>,
                  funcs |-> funcs_vec]
    /\ pc' = "emitted"
    /\ UNCHANGED <<ast, panic, config, funcs_vec, target, mem, call>>

-----------------------------------------------------------------------------
(* The emitted code, compiled: layout of the #[repr(C)] structure *)

SizeOf(ty) ==
    CASE ty = "u8" -> 1 [] ty = "u16" -> 2 [] ty = "u32" -> 4 [] ty = "u64" -> 8
      [] ty = "i32" -> 4

\* every type of the model is a scalar, aligned to its size
AlignOf(ty) == SizeOf(ty)

AlignUp(n, a) == ((n + a - 1) \div a) * a

RECURSIVE EndOf(_, _)
OffsetOf(tys, i) == AlignUp(EndOf(tys, i - 1), AlignOf(tys[i]))
EndOf(tys, i) == IF i = 0 THEN 0 ELSE OffsetOf(tys, i) + SizeOf(tys[i])

RECURSIVE StructAlign(_, _)
StructAlign(tys, i) == IF i = 0 THEN 1 ELSE Max(AlignOf(tys[i]), StructAlign(tys, i - 1))

\* mutant: the structure is laid out without its trailing padding
size_of_unpadded(tys) == EndOf(tys, Len(tys))

\* std::mem::size_of::<#name>()
size_of(tys) == AlignUp(EndOf(tys, Len(tys)), StructAlign(tys, Len(tys)))

\* the layout rustc gives the union: its size and the offset of every field
Layout(tys) ==
    [size |-> size_of(tys), offset |-> [i \in 1..Len(tys) |-> OffsetOf(tys, i)],
     width |-> [i \in 1..Len(tys) |-> SizeOf(tys[i])]]

\* the bytes of field i inside the union's storage, as indices of mem
FieldBytes(i) == (target.offset[i] + 1)..(target.offset[i] + target.width[i])

-----------------------------------------------------------------------------
(* The emitted code, compiled: loads, stores and the std conversions *)

swap_bytes(v) == Reverse(v)

\* mutants: the swap on a little-endian target is left out
to_be_no_swap(v) == v
from_be_no_swap(v) == v

\* uN::to_be / uN::from_be: the identity on a big-endian target
to_be(v) == IF target.little THEN swap_bytes(v) ELSE v
from_be(v) == IF target.little THEN swap_bytes(v) ELSE v

\* uN::to_le / uN::from_le: the identity on a little-endian target
to_le(v) == IF target.little THEN v ELSE swap_bytes(v)
from_le(v) == IF target.little THEN v ELSE swap_bytes(v)

\* a scalar as the target lays it out in memory, and back
Store(v) == IF target.little THEN Reverse(v) ELSE v
Load(bytes) == IF target.little THEN Reverse(bytes) ELSE bytes

\* self.structure.#ident read; self.structure.#ident = x
ReadField(m, i) == Load([k \in 1..target.width[i] |-> m[target.offset[i] + k]])

\* mutant: the store is one byte wider than the field
WriteFieldWide(m, i, x) ==
    [k \in 1..Len(m) |->
        IF k \in FieldBytes(i) THEN Store(x)[k - target.offset[i]]
        ELSE IF k = target.offset[i] + target.width[i] + 1 THEN 0
        ELSE m[k]]

WriteField(m, i, x) ==
    [k \in 1..Len(m) |->
        IF k \in FieldBytes(i) THEN Store(x)[k - target.offset[i]] ELSE m[k]]

\* the body of the generated getter of accessor pair f
Getter(f, raw) ==
    CASE f.conv = "be" -> from_be(raw)
      [] f.conv = "le" -> from_le(raw)
      [] f.conv = "native" -> raw

\* the value the generated setter of accessor pair f assigns
Setter(f, v) ==
    CASE f.conv = "be" -> to_be(v)
      [] f.conv = "le" -> to_le(v)
      [] f.conv = "native" -> v

get_(i) == Getter(output.funcs[i], ReadField(mem, i))

set_(i, v) == WriteField(mem, i, Setter(output.funcs[i], v))

as_buffer == mem

-----------------------------------------------------------------------------
(* Run-time inputs *)

\* 0x11, 0x22, 0x33, ..
Ramp(n) == [i \in 1..n |-> (17 * i) % 256]

\* 0x01, 0x02, 0x00, then 0x09 to the end
Scenario(n) == [i \in 1..n |-> IF i = 1 THEN 1 ELSE IF i = 2 THEN 2 ELSE IF i = 3 THEN 0 ELSE 9]

InputBuffers(n) == {Ramp(n), Scenario(n)}

\* 0x00..05 and 0xA1A2A3..
Five(w) == [i \in 1..w |-> IF i = w THEN 5 ELSE 0]
Asym(w) == [i \in 1..w |-> 160 + i]

Values(ty) == {Five(SizeOf(ty)), Asym(SizeOf(ty))}

\* what the caller writes over its own array later on
Scribble(b) == [i \in 1..Len(b) |-> 238]

-----------------------------------------------------------------------------
(* Run-time actions *)

\* rustc compiles the emitted items for a target; no_copy's locals are gone
Compile ==
    /\ pc = "emitted"
    /\ pc' = "run"
    /\ \E little \in BOOLEAN :
        target' = [little |-> little, size |-> Layout(output.structure).size,
                   offset |-> Layout(output.structure).offset,
                   width |-> Layout(output.structure).width]
    /\ ast' = Consumed
    /\ config' = NoConfig
    /\ funcs_vec' = <<>>
    /\ UNCHANGED <<panic, output, mem, call>>

\* let x = #attrname::new_buffer(b): b is moved (copied) into the union
NewBuffer ==
    /\ pc = "run"
    /\ \E b \in InputBuffers(target.size) :
        /\ mem' = b
        /\ call' = [op |-> "new_buffer", field |-> 0, v |-> b]
    /\ UNCHANGED <<ast, pc, panic, config, funcs_vec, output, target>>

SetField ==
    /\ pc = "run"
    /\ call.op # "none"
    /\ \E i \in 1..Len(output.funcs) : \E v \in Values(output.funcs[i].ty) :
        /\ mem' = set_(i, v)
        /\ call' = [op |-> "set", field |-> i, v |-> v]
    /\ UNCHANGED <<ast, pc, panic, config, funcs_vec, output, target>>

GetField ==
    /\ pc = "run"
    /\ call.op # "none"
    /\ \E i \in 1..Len(output.funcs) :
        call' = [op |-> "get", field |-> i, v |-> get_(i)]
    /\ UNCHANGED <<ast, pc, panic, config, funcs_vec, output, target, mem>>

AsBuffer ==
    /\ pc = "run"
    /\ call.op # "none"
    /\ call' = [op |-> "as_buffer", field |-> 0, v |-> as_buffer]
    /\ UNCHANGED <<ast, pc, panic, config, funcs_vec, output, target, mem>>

\* mutant: the union borrows the caller's array instead of holding its own
CallerWriteAliased ==
    /\ pc = "run"
    /\ call.op # "none"
    /\ call' = [op |-> "caller_write", field |-> 0, v |-> Scribble(mem)]
    /\ mem' = Scribble(mem)
    /\ UNCHANGED <<ast, pc, panic, config, funcs_vec, output, target>>

\* the caller writes to the array it passed to new_buffer: new_buffer took the
\* array by value, so the write lands in the caller's own copy
CallerWrite ==
    /\ pc = "run"
    /\ call.op # "none"
    /\ call' = [op |-> "caller_write", field |-> 0, v |-> Scribble(mem)]
    /\ UNCHANGED <<ast, pc, panic, config, funcs_vec, output, target, mem>>

Init ==
    /\ ast \in Inputs
    /\ pc = "repr"
    /\ panic = ""
    /\ config = NoConfig
    /\ funcs_vec = <<>>
    /\ output = NoOutput
    /\ target = NoTarget
    /\ mem = <<>>
    /\ call = NoCall

\* one invocation of the macro
GenNext ==
    \/ ReprCheck
    \/ ExtractMeta
    \/ DataCheck
    \/ MatchEndian
    \/ Quote

Next ==
    \/ GenNext
    \/ Compile
    \/ NewBuffer
    \/ SetField
    \/ GetField
    \/ AsBuffer
    \/ CallerWrite

Spec == Init /\ [][Next]_vars

-----------------------------------------------------------------------------
(* Vocabulary of the claims: what an input contains, stated on the input   *)
(* alone                                                                    *)

IsConfigAttr(attr) == attr.path = "nocopy_macro"

\* the key = "value" items of the nocopy_macro attributes, in source order
RECURSIVE ConfigItems(_)
ConfigItems(attrs) ==
    IF attrs = <<>> THEN <<>>
    ELSE (IF IsConfigAttr(Head(attrs)) THEN Head(attrs).meta.nested ELSE <<>>)
             \o ConfigItems(Tail(attrs))

LastValue(items, key, default) ==
    LET at == {i \in 1..Len(items) : items[i].path = key}
    IN  IF at = {} THEN default
        ELSE items[CHOOSE i \in at : \A j \in at : j <= i].value

ModeOf(s) == CASE s = "big" -> "Big" [] s = "little" -> "Little" [] s = "" -> "Default"

ExpectedConfig(a) ==
    [ident |-> LastValue(ConfigItems(a.attrs), "name", a.ident \o "Buffer"),
     endian |-> ModeOf(LastValue(ConfigItems(a.attrs), "endian", ""))]

HasReprC(a) == \E i \in 1..Len(a.attrs) : a.attrs[i] = ReprC

HasUnparsable(a) == \E i \in 1..Len(a.attrs) : a.attrs[i].meta.kind = "Err"

ItemFault(item) ==
    IF item.kind # "NameValueStr" THEN "Malformed macro attribute"
    ELSE IF item.path = "endian" /\ item.value \notin {"big", "little"}
    THEN "Unrecognized endian option"
    ELSE ""

\* the faults of the configuration attributes, as <<attribute, item, message>>
AttrFaults(a) ==
    {<<i, 0, "Outer attribute must be in the form key = value">> :
        i \in {k \in 1..Len(a.attrs) :
                 IsConfigAttr(a.attrs[k]) /\ a.attrs[k].meta.kind # "List"}}
    \cup
    UNION {{<<i, j, ItemFault(a.attrs[i].meta.nested[j])>> :
              j \in {l \in 1..Len(a.attrs[i].meta.nested) :
                       ItemFault(a.attrs[i].meta.nested[l]) # ""}} :
           i \in {k \in 1..Len(a.attrs) : IsConfigAttr(a.attrs[k])}}

Before(x, y) == x[1] < y[1] \/ (x[1] = y[1] /\ x[2] <= y[2])

FirstAttrFault(a) ==
    (CHOOSE x \in AttrFaults(a) : \A y \in AttrFaults(a) : Before(x, y))[3]

HasBadEndian(a) == \E x \in AttrFaults(a) : x[3] = "Unrecognized endian option"

HasMalformedAttr(a) ==
    HasUnparsable(a)
        \/ \E x \in AttrFaults(a) : x[3] # "Unrecognized endian option"

HasUnknownKey(a) ==
    \E i \in 1..Len(ConfigItems(a.attrs)) :
        /\ ConfigItems(a.attrs)[i].kind = "NameValueStr"
        /\ ConfigItems(a.attrs)[i].path \notin {"name", "endian"}

IntTypes == {"u8", "u16", "u32", "u64"}

InGeneration == pc \in {"repr", "meta", "data", "fields"}

-----------------------------------------------------------------------------
(* C6 *)

\* C6: once extract_meta has returned, the name and the endian mode are the
\* last `name` and the last `endian` value of the nocopy_macro attributes in
\* source order, and StructName + "Buffer" / Default for a key that never occurs;
\* the emitted union carries that name.
C6_ConfigIsLastWinsFold ==
    /\ pc \in {"data", "fields", "emitted"} => config = ExpectedConfig(ast)
    /\ pc = "emitted" => output.attrname = ExpectedConfig(ast).ident

C6_Witness ==
    /\ pc = "emitted"
    /\ ast.attrs = <<ReprC, EndianBig, EndianLittle>>
    /\ config = [ident |-> "ExampleBuffer", endian |-> "Little"]
    /\ output.attrname = "ExampleBuffer"

-----------------------------------------------------------------------------
(* C4 *)

\* C4: an attribute with a key other than `name` or `endian` aborts the
\* generation, so no input holding one ever reaches the emitted state.
C4_UnknownKeyAborts == HasUnknownKey(ast) => pc # "emitted"

-----------------------------------------------------------------------------
(* C5 *)

Complete(out, fields) ==
    /\ out.methods = <<"new_buffer", "as_buffer">>
    /\ Len(out.funcs) = Len(fields)
    /\ \A i \in 1..Len(fields) :
        /\ out.funcs[i].ident = fields[i].ident
        /\ out.funcs[i].get = "get_" \o fields[i].ident
        /\ out.funcs[i].set = "set_" \o fields[i].ident
    /\ out.structure = [i \in 1..Len(fields) |-> fields[i].ty]

\* C5: an invocation ends emitted (the whole union, nothing raised) or aborted
\* (a panic, nothing emitted) and nowhere else; no state has both a panic and
\* any output; and an input without repr(C), that is no struct, that has
\* positional fields, a bad endian value or a malformed attribute never ends
\* emitted.
C5_NoPartialSuccess ==
    /\ panic # "" => pc = "aborted" /\ output = NoOutput
    /\ pc = "aborted" => panic # "" /\ output = NoOutput
    /\ output # NoOutput => pc \in {"emitted", "run"} /\ panic = ""
    /\ pc = "emitted" =>
        /\ Complete(output, ast.fields)
        /\ HasReprC(ast)
        /\ ast.data = "Struct"
        /\ ast.named = "Named"
        /\ ~HasBadEndian(ast)
        /\ ~HasMalformedAttr(ast)
    /\ InGeneration => output = NoOutput /\ ENABLED GenNext

C5_Witness ==
    /\ pc = "aborted"
    /\ HasReprC(ast)
    /\ ast.named = "Unnamed"
    /\ panic = "This macro only supports structs with named fields"
    /\ output = NoOutput

-----------------------------------------------------------------------------
(* C9 *)

-----------------------------------------------------------------------------
(* C10 *)

\* the stage whose check raises a message
StageOfPanic(msg) ==
    CASE msg \in {"Provided attribute not valid", "Only outer attributes allowed here",
                  "Outer attribute must be in the form key = value",
                  "Malformed macro attribute", "Unrecognized endian option"} -> "resolver"
      [] msg \in {"This macro only supports structs",
                  "This macro only supports structs with named fields",
                  "All struct fields must be named"} -> "fields"
      [] msg = "Struct must be marked as #[repr(C)]" -> "layout"

\* the earliest stage, in the order resolver, fields, layout, with a fatal condition
ClaimedFirstStage(a) ==
    IF HasMalformedAttr(a) \/ HasBadEndian(a) THEN "resolver"
    ELSE IF a.data # "Struct" \/ a.named # "Named" THEN "fields"
    ELSE IF ~HasReprC(a) THEN "layout"
    ELSE "none"

\* C10 as stated: the panic raised is one of the earliest stage in the order
\* attribute resolver, per-field stages, layout generator (the repr(C) check
\* being the layout generator's).
C10_ClaimedOrder == pc = "aborted" => StageOfPanic(panic) = ClaimedFirstStage(ast)

\* the first fatal condition in the order the code checks them
FirstError(a) ==
    IF HasUnparsable(a) THEN "Provided attribute not valid"
    ELSE IF ~HasReprC(a) THEN "Struct must be marked as #[repr(C)]"
    ELSE IF AttrFaults(a) # {} THEN FirstAttrFault(a)
    ELSE IF a.data # "Struct" THEN "This macro only supports structs"
    ELSE IF a.named # "Named" THEN "This macro only supports structs with named fields"
    ELSE ""

\* C10, amended: the checks run in the order: every attribute parses, the
\* repr(C) marker is present, the nocopy_macro attributes in source order, the
\* input is a struct, its fields are named; then one accessor pair per field in
\* field order, then the emission. The panic raised is the first one in that
\* order.
C10_FirstErrorInCodeOrder ==
    /\ pc = "aborted" => panic = FirstError(ast)
    /\ pc \in {"fields", "emitted"} =>
        /\ FirstError(ast) = ""
        /\ \A i \in 1..Len(funcs_vec) : funcs_vec[i].ident = ast.fields[i].ident
    /\ pc = "data" => ~HasUnparsable(ast) /\ HasReprC(ast) /\ AttrFaults(ast) = {}
    /\ pc = "meta" => ~HasUnparsable(ast) /\ HasReprC(ast)

C10_Witness ==
    /\ pc = "aborted"
    /\ ~HasReprC(ast)
    /\ HasBadEndian(ast)
    /\ ast.data = "Enum"
    /\ panic = "Struct must be marked as #[repr(C)]"

-----------------------------------------------------------------------------
(* Vocabulary of the run-time claims *)

\* the bytes of field i as as_buffer() shows them
BufferBytes(i) == SubSeq(as_buffer, target.offset[i] + 1, target.offset[i] + target.width[i])

\* the encodings of a value, first byte first
BigEndianBytes(v) == v
LittleEndianBytes(v) == [k \in 1..Len(v) |-> v[Len(v) + 1 - k]]
HostBytes(v) == IF target.little THEN LittleEndianBytes(v) ELSE BigEndianBytes(v)

\* the first n bytes of a buffer, the whole of it when it is shorter
FirstBytes(b, n) == IF Len(b) >= n THEN SubSeq(b, 1, n) ELSE b

\* the union emitted for
\*   #[repr(C)] #[nocopy_macro(endian = "big")] struct Example { a: u16, b: u8 }
IsExampleBig ==
    /\ output.name = "Example"
    /\ output.structure = <<"u16", "u8">>
    /\ Len(output.funcs) = 2
    /\ output.funcs[1] = [ident |-> "a", get |-> "get_a", set |-> "set_a", ty |-> "u16", conv |-> "be"]
    /\ output.funcs[2] = [ident |-> "b", get |-> "get_b", set |-> "set_b", ty |-> "u8", conv |-> "be"]

-----------------------------------------------------------------------------
(* C1 *)

\* C1: right after set_f(v), get_f() returns v, for every field, value, endian
\* mode and target, whatever calls came before.
C1_RoundTrip == pc = "run" /\ call.op = "set" => get_(call.field) = call.v

C1_Witness ==
    /\ pc = "run"
    /\ target.little
    /\ call.op = "set"
    /\ output.funcs[call.field].ty = "u32"
    /\ output.funcs[call.field].conv = "be"
    /\ call.v = Asym(4)
    /\ get_(call.field) = Asym(4)

-----------------------------------------------------------------------------
(* C2 *)

\* C2: after set_f(v) on an integer field, the field's bytes in as_buffer() are
\* the big-endian encoding of v under Big, the little-endian encoding under
\* Little, and the target's own layout of v under Native.
C2_SetterByteOrder ==
    pc = "run" /\ call.op = "set" /\ output.funcs[call.field].ty \in IntTypes =>
        LET f == output.funcs[call.field]
        IN  /\ f.conv = "be" => BufferBytes(call.field) = BigEndianBytes(call.v)
            /\ f.conv = "le" => BufferBytes(call.field) = LittleEndianBytes(call.v)
            /\ f.conv = "native" => BufferBytes(call.field) = HostBytes(call.v)

C2_Witness ==
    /\ pc = "run"
    /\ target.little
    /\ call.op = "set"
    /\ output.funcs[call.field].ty = "u64"
    /\ output.funcs[call.field].conv = "be"
    /\ call.v = Asym(8)
    /\ BufferBytes(call.field) = <<161, 162, 163, 164, 165, 166, 167, 168>>

-----------------------------------------------------------------------------
(* C3 *)

\* C3: new_buffer(B).as_buffer() is B, and a set_f(v) changes no byte of the
\* buffer outside f's own range (no other field, no padding byte).
C3_AliasingAndFrame ==
    /\ [](pc = "run" /\ call.op = "new_buffer" => as_buffer = call.v)
    /\ [][pc = "run" /\ call'.op = "set" =>
            /\ Len(mem') = Len(mem)
            /\ \A k \in 1..Len(mem) :
                 k \notin (target.offset[call'.field] + 1)
                              ..(target.offset[call'.field] + target.width[call'.field])
                     => mem'[k] = mem[k]]_vars

\* set_a on struct { a: u8, b: u32 }: three padding bytes follow a
C3_Witness ==
    /\ pc = "run"
    /\ output.structure = <<"u8", "u32">>
    /\ target.size = 8
    /\ call = [op |-> "set", field |-> 1, v |-> Asym(1)]
    /\ mem = <<161, 2, 0, 9, 9, 9, 9, 9>>

-----------------------------------------------------------------------------
(* C7 *)

\* C7 as stated: a write by the caller to the array it passed to new_buffer
\* shows through as_buffer().
C7_CallerWriteVisible == pc = "run" /\ call.op = "caller_write" => as_buffer = call.v

\* C7, amended: the instance holds its own copy of the bytes it was built
\* from. as_buffer() right after new_buffer(B) is B, a setter's write shows in
\* as_buffer() at once, and a later write by the caller to its own array
\* changes neither as_buffer() nor what the getters return.
C7_OwnCopy ==
    /\ [](pc = "run" /\ call.op = "new_buffer" => as_buffer = call.v)
    /\ [](pc = "run" /\ call.op = "set" =>
            BufferBytes(call.field) = Store(Setter(output.funcs[call.field], call.v)))
    /\ [][pc = "run" /\ call'.op = "caller_write" =>
            /\ as_buffer' = as_buffer
            /\ \A i \in 1..Len(output.funcs) : get_(i)' = get_(i)]_vars

C7_Witness ==
    /\ pc = "run"
    /\ call.op = "caller_write"
    /\ Len(mem) = 4
    /\ as_buffer = <<1, 2, 0, 9>>
    /\ call.v = <<238, 238, 238, 238>>

-----------------------------------------------------------------------------
(* C8 *)

\* C8 as stated: the raw view of ExampleBuffer is three bytes long (a at 0,
\* width 2; b at 2, width 1), so that [0x01, 0x02, 0x00] constructs it.
C8_ThreeByteBuffer ==
    pc = "run" /\ IsExampleBig =>
        /\ target.offset = <<0, 2>>
        /\ target.width = <<2, 1>>
        /\ target.size = 3

\* C8, amended: for struct Example { a: u16, b: u8 } with endian = "big" and
\* default naming the union is ExampleBuffer, a at offset 0 width 2, b at
\* offset 2 width 1, one padding byte at offset 3, four bytes in all. Built
\* from [0x01, 0x02, 0x00, p] it gives get_a() = 0x0102 and get_b() = 0x00, and
\* after set_b(5) as_buffer() is [0x01, 0x02, 0x05, p].
C8_ExampleScenario ==
    /\ [](pc = "emitted" /\ ast.ident = "Example" /\ ExpectedConfig(ast).endian = "Big"
            /\ LastValue(ConfigItems(ast.attrs), "name", "") = ""
            /\ ast.fields = NamedFields(<<"u16", "u8">>)
          => output.attrname = "ExampleBuffer" /\ IsExampleBig)
    /\ [](pc = "run" /\ IsExampleBig =>
            /\ target.offset = <<0, 2>>
            /\ target.width = <<2, 1>>
            /\ target.size = 4
            /\ (call.op = "new_buffer" /\ FirstBytes(call.v, 3) = <<1, 2, 0>> =>
                   /\ get_(1) = <<1, 2>>
                   /\ get_(1)[1] * 256 + get_(1)[2] = 258
                   /\ get_(2) = <<0>>))
    /\ [][pc = "run" /\ IsExampleBig /\ FirstBytes(mem, 3) = <<1, 2, 0>>
            /\ call'.op = "set" /\ call'.field = 2 /\ call'.v = <<5>>
          => as_buffer' = <<1, 2, 5>> \o SubSeq(mem, 4, Len(mem))]_vars

C8_Witness ==
    /\ pc = "run"
    /\ IsExampleBig
    /\ output.attrname = "ExampleBuffer"
    /\ call = [op |-> "set", field |-> 2, v |-> <<5>>]
    /\ as_buffer = <<1, 2, 5, 9>>

====
